---- MODULE Spec2Model ----
(***************************************************************************)
(* Asynchronous control-flow combinators of trycatcher (src/src/index.ts): *)
(* retry, withTimeout, withCancel, rateLimit and batch.  Each is a machine *)
(* whose steps are the runs-to-completion of the JavaScript event loop: a  *)
(* step starts when a promise reaction or a timer callback is taken from   *)
(* its queue and ends at the next await / return.                          *)
(***************************************************************************)
EXTENDS Integers, Sequences, FiniteSets, TLC

VARIABLES
    \* ---- retry (index.ts 127-162)
    options,      \* the options argument; an absent field is the empty set
    attempt,      \* loop variable `attempt`
    lastError,    \* `lastError`
    rpc,          \* where the async function is suspended
    waitTime,     \* duration of the pending setTimeout of line 156
    inFlight,     \* promises returned by fn() that have not settled yet
    events,       \* history of what retry did, in order
    result,       \* the promise retry returned
    \* ---- withTimeout (index.ts 292-312)
    tPromise,     \* the `promise` argument: the wrapped task
    tMs,          \* the `ms` argument
    tMessage,     \* the `message` argument; absent is the empty set
    tpc,          \* "start" before the call of withTimeout, "called" after
    timeoutId,    \* the deadline timer: "none", "armed", "fired", "cleared"
    deadline,     \* the time at which the armed timer becomes due
    now,          \* the clock
    tWrapped,     \* the promise withTimeout returned
    tJobs,        \* promise reaction jobs of the chain, in microtask order
    tChain,       \* outcomes of the promises .then, .catch, .finally returned
    tFirst,       \* which happened first: "none", "task" or "deadline"
    \* ---- withCancel (index.ts 236-253)
    cPromise,     \* the `promise` argument: the underlying task
    cpc,          \* "start" before the call of withCancel, "called" after
    isCancelled,  \* `isCancelled`
    wrappedPromise, \* `wrappedPromise`
    cJobs,        \* promise reaction jobs of promise.then, in microtask order
    cHistory,     \* history: "cancel", "settle", "deliver", in order
    \* ---- rateLimit (index.ts 167-219)
    maxCalls,     \* options.maxCalls
    queue,        \* `queue`: the entries { args, resolve, reject }
    callsMade,    \* `callsMade`
    interval,     \* `interval`: "null" or "set"
    lCallers,     \* the promise returned to each dispatcher call, by call id
    lArgs,        \* the arguments of each dispatcher call, by call id
    lResults,     \* the promise fn returned for each call, by call id
    lInvoked,     \* history of the invocations of fn, in order
    lJobs,        \* continuations of `await fn(...args)`, in microtask order
    ticks,        \* number of window ticks so far
    \* ---- batch (index.ts 258-287)
    bOptions,     \* the options argument; an absent field is the empty set
    items,        \* `items`
    bIndex,       \* loop variable `i`
    results,      \* `results`
    bpc,          \* where the async function is suspended
    bProcs,       \* per item: not invoked, or what processor(item) gave
    bOrder,       \* the items in the order their promises settled
    bEvents,      \* history of what batch did, in order
    bResult       \* the promise batch returned

rvars == <<options, attempt, lastError, rpc, waitTime, inFlight, events, result>>
tvars == <<tPromise, tMs, tMessage, tpc, timeoutId, deadline, now, tWrapped,
           tJobs, tChain, tFirst>>
cvars == <<cPromise, cpc, isCancelled, wrappedPromise, cJobs, cHistory>>

lvars == <<maxCalls, queue, callsMade, interval, lCallers, lArgs, lResults,
           lInvoked, lJobs, ticks>>

bvars == <<bOptions, items, bIndex, results, bpc, bProcs, bOrder, bEvents,
           bResult>>

vars == <<rvars, tvars, cvars, lvars, bvars>>

-----------------------------------------------------------------------------
(* Bounds of the model *)

\* largest `attempts` option tried
MaxAttempts == 3
\* largest `delay` option tried
MaxDelay == 2
\* largest `ms` given to withTimeout
MaxMs == 2
\* the clock stops here
MaxTime == 3
\* largest number of cancel() calls on one handle
MaxCancelCalls == 3
\* largest options.maxCalls of a rate limiter
MaxLimit == 2
\* largest number of calls made through one dispatcher
MaxRequests == 4
\* largest number of window ticks
MaxTicks == 2
\* largest number of items given to batch
MaxItems == 4
\* largest `size` option tried
MaxSize == 3
\* largest `delay` option of batch tried
MaxBatchDelay == 1
\* largest `concurrency` option tried
MaxConcurrency == 2

-----------------------------------------------------------------------------
(* Values, errors and promise states *)

Values == {"V1", "V2"}

Err(m, c) == [message |-> m, code |-> c, statusCode |-> 0]

\* lines 13-28: new AppError(message, { code, statusCode }); "" and 0 stand
\* for an option that is not given
AppError(message, code, statusCode) ==
    [message |-> message,
     code |-> IF code = "" THEN "INTERNAL_ERROR" ELSE code,
     statusCode |-> IF statusCode = 0 THEN 500 ELSE statusCode]

\* errors the caller's functions may throw / reject with
Errors == {Err("E1", ""), Err("E2", "")}

\* what an onRetry callback throws when it throws
CallbackError == Err("onRetry threw", "")

\* the value of a `let x: Error;` that was never assigned
Undefined == Err("undefined", "")

Pending == <<"pending">>
Fulfilled(v) == <<"fulfilled", v>>
Rejected(e) == <<"rejected", e>>

IsSettled(p) == p # Pending
IsFulfilled(p) == p[1] = "fulfilled"
IsRejected(p) == p[1] = "rejected"

\* `resolve` / `reject` of a promise: only the first call has an effect
Settle(p, outcome) == IF p = Pending THEN outcome ELSE p

-----------------------------------------------------------------------------
(* JavaScript `a || b` on an optional number: undefined and 0 are falsy *)

OrDefault(opt, dflt) ==
    IF opt = {} \/ opt = {0} THEN dflt ELSE CHOOSE x \in opt : TRUE

-----------------------------------------------------------------------------
(* retry *)

DefaultAttempts == 3
DefaultDelay == 1000

\* line 136: const attempts = options.attempts || 3
attempts == OrDefault(options.attempts, DefaultAttempts)

\* line 137: const delay = options.delay || 1000
delay == OrDefault(options.delay, DefaultDelay)

\* line 138: const backoff = options.backoff !== false
backoff == options.backoff # {FALSE}

\* line 139: const onRetry = options.onRetry; line 152: if (onRetry)
onRetry == options.onRetry # {}

\* line 150: backoff ? delay * Math.pow(2, attempt - 1) : delay
WaitTimeOf(k) == IF backoff THEN delay * 2 ^ (k - 1) ELSE delay

\* line 149: if (attempt < attempts)
MoreAttempts(k) == k < attempts

Ev(type, k, ms, payload) ==
    [type |-> type, attempt |-> k, ms |-> ms, payload |-> payload]

RetryOptions ==
    [attempts : {{}} \cup {{n} : n \in 0..MaxAttempts},
     delay    : {{}} \cup {{n} : n \in 0..MaxDelay},
     backoff  : {{}, {TRUE}, {FALSE}},
     onRetry  : {{}, {"callback"}}]

RetryBegin ==
    /\ options \in RetryOptions
    /\ attempt = 0
    /\ lastError = Undefined
    /\ rpc = "start"
    /\ waitTime = 0
    /\ inFlight = 0
    /\ events = <<>>
    /\ result = Pending

\* lines 143-145 and 161: the loop test for iteration k, then either the
\* call `fn()` up to its await, or the `throw lastError` after the loop.
\* err is the value of lastError at that point, log the history so far and
\* pending the number of fn() promises still unsettled.
LoopIteration(k, err, log, pending) ==
    /\ attempt' = k
    /\ IF k <= attempts
       THEN /\ rpc' = "awaitFn"
            /\ inFlight' = pending + 1
            /\ events' = Append(log, Ev("call", k, 0, Undefined))
            /\ result' = result
       ELSE /\ rpc' = "done"
            /\ inFlight' = pending
            /\ events' = Append(log, Ev("throw", k, 0, err))
            /\ result' = Settle(result, Rejected(err))

\* lines 135-145: retry(fn, options) is called and runs to its first await
RetryStart ==
    /\ rpc = "start"
    /\ LoopIteration(1, lastError, events, inFlight)
    /\ UNCHANGED <<options, lastError, waitTime, tvars, cvars, lvars, bvars>>

\* a retry whose try block lacks the `return`: the value is dropped and the
\* loop goes on
RetryFnResolveNoReturn(v) ==
    /\ rpc = "awaitFn"
    /\ LoopIteration(attempt + 1, lastError,
                     Append(events, Ev("resolve", attempt, 0, Err(v, ""))),
                     inFlight - 1)
    /\ UNCHANGED <<options, lastError, waitTime, tvars, cvars, lvars, bvars>>

\* line 145: the promise of fn() fulfils with v; `return await fn()`
RetryFnResolve(v) ==
    /\ rpc = "awaitFn"
    /\ rpc' = "done"
    /\ inFlight' = inFlight - 1
    /\ events' = Append(events, Ev("resolve", attempt, 0, Err(v, "")))
    /\ result' = Settle(result, Fulfilled(v))
    /\ UNCHANGED <<options, attempt, lastError, waitTime, tvars, cvars, lvars, bvars>>

\* lines 152-154: if (onRetry) onRetry(attempt, lastError), appended to log
CallOnRetry(log, k, e) ==
    IF onRetry THEN Append(log, Ev("onRetry", k, 0, e)) ELSE log

\* a retry that does not await the setTimeout promise of line 156: the next
\* iteration starts while the timer is still running
RetryFnRejectNoAwait(e, cbThrows) ==
    /\ rpc = "awaitFn"
    /\ ~cbThrows
    /\ lastError' = e
    /\ UNCHANGED <<options, tvars, cvars, lvars, bvars>>
    /\ waitTime' = IF MoreAttempts(attempt) THEN WaitTimeOf(attempt) ELSE waitTime
    /\ LET failed == Append(events, Ev("reject", attempt, 0, e))
           waited == Append(CallOnRetry(failed, attempt, e),
                            Ev("wait", attempt, WaitTimeOf(attempt), Undefined))
       IN  LoopIteration(attempt + 1, e,
                         IF MoreAttempts(attempt) THEN waited ELSE failed,
                         inFlight - 1)

\* lines 146-158: the promise of fn() rejects with e (or fn throws e): the
\* catch block.  cbThrows says whether the onRetry callback, when it is
\* called, throws; an exception leaving the catch block rejects the promise
\* of retry.  Without a wait (line 149 false) the step goes on with attempt++
\* and the loop test.
RetryFnReject(e, cbThrows) ==
    /\ rpc = "awaitFn"
    /\ cbThrows => (MoreAttempts(attempt) /\ onRetry)
    /\ lastError' = e
    /\ UNCHANGED <<options, tvars, cvars, lvars, bvars>>
    /\ LET failed == Append(events, Ev("reject", attempt, 0, e))
           called == CallOnRetry(failed, attempt, e)
       IN  IF MoreAttempts(attempt)
           THEN /\ waitTime' = WaitTimeOf(attempt)
                /\ attempt' = attempt
                /\ inFlight' = inFlight - 1
                /\ IF cbThrows
                   THEN /\ rpc' = "done"
                        /\ events' = Append(called, Ev("throw", attempt, 0, CallbackError))
                        /\ result' = Settle(result, Rejected(CallbackError))
                   ELSE /\ rpc' = "wait"
                        /\ events' = Append(called, Ev("wait", attempt, WaitTimeOf(attempt), Undefined))
                        /\ result' = result
           ELSE /\ waitTime' = waitTime
                /\ LoopIteration(attempt + 1, e, failed, inFlight - 1)

\* line 156 resumes: the setTimeout of waitTime ms fires, then attempt++ and
\* the next loop iteration
RetryWaitElapsed ==
    /\ rpc = "wait"
    /\ waitTime' = 0
    /\ LoopIteration(attempt + 1, lastError,
                     Append(events, Ev("elapsed", attempt, waitTime, Undefined)),
                     inFlight)
    /\ UNCHANGED <<options, lastError, tvars, cvars, lvars, bvars>>

RetryNext ==
    \/ RetryStart
    \/ \E v \in Values : RetryFnResolve(v)
    \/ \E e \in Errors, cbThrows \in BOOLEAN : RetryFnReject(e, cbThrows)
    \/ RetryWaitElapsed

-----------------------------------------------------------------------------
(* withTimeout *)

DefaultMessage == "Operation timed out"

\* line 295: message = 'Operation timed out' applies when none is given
message == IF tMessage = {} THEN DefaultMessage ELSE CHOOSE m \in tMessage : TRUE

\* a withTimeout whose timer callback ignores the message argument
TimeoutErrorFixedMessage(msg) == AppError(DefaultMessage, "TIMEOUT", 408)

\* lines 299-303: new AppError(message, { code: 'TIMEOUT', statusCode: 408 })
TimeoutError(msg) == AppError(msg, "TIMEOUT", 408)

\* the settled states a task promise can have
Outcomes == {Fulfilled(v) : v \in Values} \cup {Rejected(e) : e \in Errors}

Job(step, outcome) == [step |-> step, outcome |-> outcome]

TimeoutBegin ==
    /\ tPromise \in {Pending} \cup Outcomes
    /\ tMs \in 0..MaxMs
    /\ tMessage \in {{}, {"M"}}
    /\ tpc = "start"
    /\ timeoutId = "none"
    /\ deadline = 0
    /\ now = 0
    /\ tWrapped = Pending
    /\ tJobs = <<>>
    /\ tChain = <<>>
    /\ tFirst = IF tPromise = Pending THEN "none" ELSE "task"

\* line 308, promise.then(resolve): the reaction to the task's outcome o,
\* given the state w of the returned promise.  A rejection has no handler
\* here and passes to the promise .then returned.
ThenHandler(o, w) ==
    IF IsFulfilled(o)
    THEN [wrapped |-> Settle(w, o), derived |-> Fulfilled("undefined")]
    ELSE [wrapped |-> w, derived |-> o]

\* a chain without its .catch(reject): the reaction passes everything on
CatchHandlerMissing(o, w) == [wrapped |-> w, derived |-> o]

\* line 309, .catch(reject): the reaction to the outcome o of the promise
\* .then returned
CatchHandler(o, w) ==
    IF IsRejected(o)
    THEN [wrapped |-> Settle(w, o), derived |-> Fulfilled("undefined")]
    ELSE [wrapped |-> w, derived |-> o]

\* a chain whose .finally does not clear the timer
FinallyHandlerNoClear(o, timer) == [timer |-> timer, derived |-> o]

\* line 310, .finally(() => clearTimeout(timeoutId)): clearing a timer that
\* has fired does nothing; the outcome passes through
FinallyHandler(o, timer) ==
    [timer |-> IF timer = "armed" THEN "cleared" ELSE timer, derived |-> o]

\* lines 297-311: withTimeout(promise, ms, message) is called: the timer is
\* armed and the chain is attached; a promise that has settled already has
\* its reaction queued at once
TimeoutStart ==
    /\ tpc = "start"
    /\ tpc' = "called"
    /\ timeoutId' = "armed"
    /\ deadline' = now + tMs
    /\ tJobs' = IF IsSettled(tPromise) THEN <<Job("then", tPromise)>> ELSE <<>>
    /\ UNCHANGED <<tPromise, tMs, tMessage, now, tWrapped, tChain, tFirst>>
    /\ UNCHANGED <<rvars, cvars, lvars, bvars>>

\* the wrapped task settles with outcome o, whenever it does
TimeoutTaskSettles(o) ==
    /\ tPromise = Pending
    /\ tPromise' = o
    /\ tJobs' = IF tpc = "called" THEN Append(tJobs, Job("then", o)) ELSE tJobs
    /\ tFirst' = IF tFirst = "none" THEN "task" ELSE tFirst
    /\ UNCHANGED <<tMs, tMessage, tpc, timeoutId, deadline, now, tWrapped, tChain>>
    /\ UNCHANGED <<rvars, cvars, lvars, bvars>>

\* time passes
TimeoutTick ==
    /\ now < MaxTime
    /\ now' = now + 1
    /\ UNCHANGED <<tPromise, tMs, tMessage, tpc, timeoutId, deadline, tWrapped,
                   tJobs, tChain, tFirst>>
    /\ UNCHANGED <<rvars, cvars, lvars, bvars>>

\* lines 298-305: the timer callback.  A timer callback is a macrotask: it
\* runs when the timer is due and no promise reaction job is waiting.
TimeoutFires ==
    /\ timeoutId = "armed"
    /\ now >= deadline
    /\ tJobs = <<>>
    /\ timeoutId' = "fired"
    /\ tWrapped' = Settle(tWrapped, Rejected(TimeoutError(message)))
    /\ tFirst' = IF tFirst = "none" THEN "deadline" ELSE tFirst
    /\ UNCHANGED <<tPromise, tMs, tMessage, tpc, deadline, now, tJobs, tChain>>
    /\ UNCHANGED <<rvars, cvars, lvars, bvars>>

\* lines 307-310: the next promise reaction job of the chain runs; the
\* promise it settles queues the reaction of the next link
TimeoutReaction ==
    /\ tJobs # <<>>
    /\ LET job == Head(tJobs)
           th == ThenHandler(job.outcome, tWrapped)
           ca == CatchHandler(job.outcome, tWrapped)
           fi == FinallyHandler(job.outcome, timeoutId)
       IN  CASE job.step = "then" ->
                  /\ tWrapped' = th.wrapped
                  /\ tChain' = Append(tChain, th.derived)
                  /\ tJobs' = Append(Tail(tJobs), Job("catch", th.derived))
                  /\ timeoutId' = timeoutId
             [] job.step = "catch" ->
                  /\ tWrapped' = ca.wrapped
                  /\ tChain' = Append(tChain, ca.derived)
                  /\ tJobs' = Append(Tail(tJobs), Job("finally", ca.derived))
                  /\ timeoutId' = timeoutId
             [] job.step = "finally" ->
                  /\ tWrapped' = tWrapped
                  /\ tChain' = Append(tChain, fi.derived)
                  /\ tJobs' = Tail(tJobs)
                  /\ timeoutId' = fi.timer
    /\ UNCHANGED <<tPromise, tMs, tMessage, tpc, deadline, now, tFirst>>
    /\ UNCHANGED <<rvars, cvars, lvars, bvars>>

\* a rejected promise nobody attached a handler to: only the promise that
\* .finally returned has none
UnhandledRejection == Len(tChain) = 3 /\ IsRejected(tChain[3])

-----------------------------------------------------------------------------
(* withCancel *)

\* line 244: new AppError('Operation cancelled', { code: 'CANCELLED' })
CancelledError == AppError("Operation cancelled", "CANCELLED", 0)

CancelBegin ==
    /\ cPromise \in {Pending} \cup Outcomes
    /\ cpc = "start"
    /\ isCancelled = FALSE
    /\ wrappedPromise = Pending
    /\ cJobs = <<>>
    /\ cHistory = IF cPromise = Pending THEN <<>> ELSE <<"settle">>

\* a withCancel whose test of the flag is inverted
OnFulfilledInverted(v, cancelled) ==
    IF ~cancelled THEN Rejected(CancelledError) ELSE Fulfilled(v)

\* line 244: value => isCancelled ? reject(new AppError(...)) : resolve(value)
OnFulfilled(v, cancelled) ==
    IF cancelled THEN Rejected(CancelledError) ELSE Fulfilled(v)

\* line 245: error => reject(error)
OnRejected(e, cancelled) == Rejected(e)

\* lines 240-252: withCancel(promise) is called
CancelStart ==
    /\ cpc = "start"
    /\ cpc' = "called"
    /\ cJobs' = IF IsSettled(cPromise) THEN <<cPromise>> ELSE <<>>
    /\ UNCHANGED <<cPromise, isCancelled, wrappedPromise, cHistory>>
    /\ UNCHANGED <<rvars, tvars, lvars, bvars>>

\* the underlying task settles with outcome o, whenever it does
CancelTaskSettles(o) ==
    /\ cPromise = Pending
    /\ cPromise' = o
    /\ cJobs' = IF cpc = "called" THEN Append(cJobs, o) ELSE cJobs
    /\ cHistory' = Append(cHistory, "settle")
    /\ UNCHANGED <<cpc, isCancelled, wrappedPromise>>
    /\ UNCHANGED <<rvars, tvars, lvars, bvars>>

\* a handle whose cancel() flips the flag instead of setting it
CancelToggles ==
    /\ cpc = "called"
    /\ Len(SelectSeq(cHistory, LAMBDA h : h = "cancel")) < MaxCancelCalls
    /\ isCancelled' = ~isCancelled
    /\ cHistory' = Append(cHistory, "cancel")
    /\ UNCHANGED <<cPromise, cpc, wrappedPromise, cJobs>>
    /\ UNCHANGED <<rvars, tvars, lvars, bvars>>

\* a handle whose cancel() rejects the returned promise at once
CancelRejectsNow ==
    /\ cpc = "called"
    /\ Len(SelectSeq(cHistory, LAMBDA h : h = "cancel")) < MaxCancelCalls
    /\ isCancelled' = TRUE
    /\ wrappedPromise' = Settle(wrappedPromise, Rejected(CancelledError))
    /\ cHistory' = Append(cHistory, "cancel")
    /\ UNCHANGED <<cPromise, cpc, cJobs>>
    /\ UNCHANGED <<rvars, tvars, lvars, bvars>>

\* line 251: cancel() is called on the handle
Cancel ==
    /\ cpc = "called"
    /\ Len(SelectSeq(cHistory, LAMBDA h : h = "cancel")) < MaxCancelCalls
    /\ isCancelled' = TRUE
    /\ cHistory' = Append(cHistory, "cancel")
    /\ UNCHANGED <<cPromise, cpc, wrappedPromise, cJobs>>
    /\ UNCHANGED <<rvars, tvars, lvars, bvars>>

\* lines 243-246: the reaction job of promise.then runs
CancelReaction ==
    /\ cJobs # <<>>
    /\ LET o == Head(cJobs)
       IN  wrappedPromise' =
               Settle(wrappedPromise,
                      IF IsFulfilled(o) THEN OnFulfilled(o[2], isCancelled)
                                        ELSE OnRejected(o[2], isCancelled))
    /\ cJobs' = Tail(cJobs)
    /\ cHistory' = Append(cHistory, "deliver")
    /\ UNCHANGED <<cPromise, cpc, isCancelled>>
    /\ UNCHANGED <<rvars, tvars, lvars, bvars>>

-----------------------------------------------------------------------------
(* rateLimit *)

\* the producer fn: called with args, its promise fulfils with a value that
\* depends on args, or rejects
FnOutcomes(args) == {Fulfilled(<<"result", args>>), Rejected(Err("E1", ""))}

RateBegin ==
    /\ maxCalls \in 0..MaxLimit
    /\ queue = <<>>
    /\ callsMade = 0
    /\ interval = "null"
    /\ lCallers = <<>>
    /\ lArgs = <<>>
    /\ lResults = <<>>
    /\ lInvoked = <<>>
    /\ lJobs = <<>>
    /\ ticks = 0

\* a limiter that compares with > instead of >=
MayAdmitOffByOne(q, made) == ~(Len(q) = 0 \/ made > maxCalls)

\* line 184: if (queue.length === 0 || callsMade >= options.maxCalls) return
MayAdmit(q, made) == ~(Len(q) = 0 \/ made >= maxCalls)

\* a limiter that takes the newest entry: queue.pop()
Pop(q) == [entry |-> q[Len(q)], rest |-> SubSeq(q, 1, Len(q) - 1)]

\* line 188: queue.shift()
Shift(q) == [entry |-> Head(q), rest |-> Tail(q)]

\* lines 183-192: processQueue() up to its await, on the queue q: it returns
\* at once, or takes one entry, counts it and calls fn with its arguments
ProcessQueue(q, made) ==
    IF MayAdmit(q, made)
    THEN /\ queue' = Shift(q).rest
         /\ callsMade' = made + 1
         /\ lInvoked' = Append(lInvoked, [id |-> Shift(q).entry.id,
                                          args |-> Shift(q).entry.args,
                                          window |-> ticks',
                                          waiting |-> Len(q) - 1])
    ELSE /\ queue' = q
         /\ callsMade' = made
         /\ lInvoked' = lInvoked

\* lines 208-218: the dispatcher is called; the k-th call passes k as its
\* arguments, so that no two calls pass the same
RateCall ==
    /\ Len(lCallers) < MaxRequests
    /\ lCallers' = Append(lCallers, Pending)
    /\ lArgs' = Append(lArgs, Len(lCallers) + 1)
    /\ lResults' = Append(lResults, Pending)
    /\ interval' = "set"
    /\ ticks' = ticks
    /\ ProcessQueue(Append(queue, [id |-> Len(lCallers) + 1,
                                   args |-> Len(lCallers) + 1]),
                    callsMade)
    /\ UNCHANGED <<maxCalls, lJobs>>
    /\ UNCHANGED <<rvars, tvars, cvars, bvars>>

\* lines 203-206: resetCalls, the setInterval callback.  A timer callback
\* runs when no continuation is waiting in the microtask queue.
RateTick ==
    /\ interval = "set"
    /\ lJobs = <<>>
    /\ ticks < MaxTicks
    /\ ticks' = ticks + 1
    /\ ProcessQueue(queue, 0)
    /\ UNCHANGED <<maxCalls, interval, lCallers, lArgs, lResults, lJobs>>
    /\ UNCHANGED <<rvars, tvars, cvars, bvars>>

\* a resetCalls that resets the counter and leaves the queue alone
RateLateTickResetOnly ==
    /\ interval = "set"
    /\ lJobs = <<>>
    /\ ticks >= MaxTicks
    /\ callsMade > 0
    /\ ticks' = ticks + 1
    /\ callsMade' = 0
    /\ UNCHANGED <<maxCalls, queue, interval, lCallers, lArgs, lResults,
                   lInvoked, lJobs>>
    /\ UNCHANGED <<rvars, tvars, cvars, bvars>>

\* lines 203-206: resetCalls of a timer that never stops: the ticks after
\* the first MaxTicks, counted as long as they change callsMade or the queue
RateLateTick ==
    /\ interval = "set"
    /\ lJobs = <<>>
    /\ ticks >= MaxTicks
    /\ callsMade > 0 \/ MayAdmit(queue, 0)
    /\ ticks' = ticks + 1
    /\ ProcessQueue(queue, 0)
    /\ UNCHANGED <<maxCalls, interval, lCallers, lArgs, lResults, lJobs>>
    /\ UNCHANGED <<rvars, tvars, cvars, bvars>>

\* the promise fn returned for call id settles with outcome o; the
\* continuation of processQueue is queued
RateFnSettles(id, o) ==
    /\ \E i \in 1..Len(lInvoked) : lInvoked[i].id = id
    /\ lResults[id] = Pending
    /\ o \in FnOutcomes(lArgs[id])
    /\ lResults' = [lResults EXCEPT ![id] = o]
    /\ lJobs' = Append(lJobs, id)
    /\ UNCHANGED <<maxCalls, queue, callsMade, interval, lCallers, lArgs,
                   lInvoked, ticks>>
    /\ UNCHANGED <<rvars, tvars, cvars, bvars>>

\* a limiter whose catch block swallows the error
DeliverDropsErrors(callers, id, o) ==
    IF IsRejected(o) THEN callers ELSE [callers EXCEPT ![id] = Settle(@, o)]

\* lines 192-196: resolve(result) / reject(error) of the entry's own caller
Deliver(callers, id, o) == [callers EXCEPT ![id] = Settle(@, o)]

\* lines 192-200: processQueue resumes after its await: the outcome goes to
\* the caller, then, if entries are queued, processQueue() is called again
RateContinuation ==
    /\ lJobs # <<>>
    /\ lJobs' = Tail(lJobs)
    /\ lCallers' = Deliver(lCallers, Head(lJobs), lResults[Head(lJobs)])
    /\ ticks' = ticks
    /\ IF Len(queue) > 0
       THEN ProcessQueue(queue, callsMade)
       ELSE UNCHANGED <<queue, callsMade, lInvoked>>
    /\ UNCHANGED <<maxCalls, interval, lArgs, lResults>>
    /\ UNCHANGED <<rvars, tvars, cvars, bvars>>

-----------------------------------------------------------------------------
(* batch *)

DefaultSize == 10
DefaultBatchDelay == 0

\* line 267: const size = options.size || 10
size == OrDefault(bOptions.size, DefaultSize)

\* line 268: const delay = options.delay || 0
batchDelay == OrDefault(bOptions.delay, DefaultBatchDelay)

\* line 269: const concurrency = options.concurrency || size (never read)
concurrency == OrDefault(bOptions.concurrency, size)

NotInvoked == <<"none">>
Threw(e) == <<"threw", e>>

\* the processor: processor(item) throws at once, or returns a promise that
\* fulfils with a result of its own or rejects with an error of its own
ProcessorError(item) == Err("E" \o ToString(item), "")
ProcessorOutcomes(item) ==
    {Fulfilled(<<"r", item>>), Rejected(ProcessorError(item))}

BatchOptions ==
    [size        : {{}} \cup {{n} : n \in 0..MaxSize},
     delay       : {{}} \cup {{n} : n \in 0..MaxBatchDelay},
     concurrency : {{}} \cup {{n} : n \in 1..MaxConcurrency}]

BatchBegin ==
    /\ bOptions \in BatchOptions
    /\ items \in {[k \in 1..n |-> k] : n \in 0..MaxItems}
    /\ bIndex = 0
    /\ results = <<>>
    /\ bpc = "start"
    /\ bProcs = [k \in 1..Len(items) |-> NotInvoked]
    /\ bOrder = <<>>
    /\ bEvents = <<>>
    /\ bResult = Pending

\* line 274: items.slice(i, i + size), as positions in items
Slice(off) ==
    {k \in 1..Len(items) : off < k /\ k <= off + size}

\* a Promise.all replaced by Promise.allSettled: waits for every promise and
\* never rejects
PromiseAllSettled(procs, group, k) ==
    IF \A j \in group : procs[j][1] \in {"fulfilled", "rejected"}
    THEN "fulfilled" ELSE "pending"

\* a Promise.all replaced by Promise.any: the first fulfilment decides
PromiseAny(procs, group, k) ==
    IF IsFulfilled(procs[k]) THEN "fulfilled" ELSE "pending"

\* line 275, Promise.all over the promises of a group, when the promise of
\* item k has just settled: it rejects with the first rejection and fulfils
\* when every promise has fulfilled
PromiseAll(procs, group, k) ==
    IF IsRejected(procs[k]) THEN "rejected"
    ELSE IF \A j \in group : IsFulfilled(procs[j]) THEN "fulfilled"
    ELSE "pending"

ValueOf(p) == IF IsFulfilled(p) THEN p[2] ELSE <<"undefined">>

\* the items of a group in the order in which their promises settled
SettledOrder(order, group) == SelectSeq(order, LAMBDA k : k \in group)

\* a batch that collects the results of a group as they arrive
GroupResultsAsSettled(procs, order, group) ==
    [j \in 1..Len(SettledOrder(order, group)) |->
        ValueOf(procs[SettledOrder(order, group)[j]])]

\* lines 275-277: the value of Promise.all: the results in the order of the
\* items of the group
GroupResults(procs, order, group) ==
    LET lo == CHOOSE k \in group : \A j \in group : k <= j
    IN  [j \in 1..Cardinality(group) |-> ValueOf(procs[lo + j - 1])]

\* a batch that waits after every group
ShouldWaitAlways(off) == batchDelay > 0

\* line 281: if (delay > 0 && i + size < items.length)
ShouldWait(off) == batchDelay > 0 /\ off + size < Len(items)

BEv(type, item, off) == [type |-> type, item |-> item, offset |-> off]

\* line 282: await new Promise(resolve => setTimeout(resolve, delay))
WaitEv(off) == [type |-> "wait", item |-> 0, offset |-> off, ms |-> batchDelay]

\* the events of invoking processor for the items lo..hi in order
RECURSIVE InvokeEvents(_, _, _)
InvokeEvents(lo, hi, off) ==
    IF lo > hi THEN <<>>
    ELSE <<BEv("invoke", lo, off)>> \o InvokeEvents(lo + 1, hi, off)

\* lines 273-276 and 286: the loop test with i = off, then either the calls
\* processor(item) for the items of the slice up to the await, or the
\* `return results`.  thrower is the item for which processor throws instead
\* of returning a promise (0: none): the map stops there and the exception
\* rejects the promise of batch.
LoopGroup(off, res, procs, log, thrower) ==
    /\ bIndex' = off
    /\ results' = res
    /\ IF off < Len(items)
       THEN LET last == IF thrower = 0 THEN off + Cardinality(Slice(off))
                                       ELSE thrower
            IN  /\ thrower \in {0} \cup Slice(off)
                /\ bProcs' = [k \in 1..Len(items) |->
                                IF k = thrower THEN Threw(ProcessorError(k))
                                ELSE IF off < k /\ k <= last THEN Pending
                                ELSE procs[k]]
                /\ bEvents' = log \o InvokeEvents(off + 1, last, off)
                /\ bpc' = IF thrower = 0 THEN "awaitAll" ELSE "done"
                /\ bResult' = IF thrower = 0 THEN bResult
                              ELSE Settle(bResult, Rejected(ProcessorError(thrower)))
       ELSE /\ thrower = 0
            /\ bProcs' = procs
            /\ bEvents' = log
            /\ bpc' = "done"
            /\ bResult' = Settle(bResult, Fulfilled(res))

\* lines 266-276: batch(items, processor, options) is called and runs to its
\* first await
BatchStart(thrower) ==
    /\ bpc = "start"
    /\ LoopGroup(0, results, bProcs, bEvents, thrower)
    /\ UNCHANGED <<bOptions, items, bOrder>>
    /\ UNCHANGED <<rvars, tvars, cvars, lvars>>

\* lines 275-284: the promise processor returned for item k settles with o.
\* While batch awaits Promise.all, a rejection ends batch, and the last
\* fulfilment of the group resumes it: the results are pushed, then the wait
\* of line 282 starts or the loop goes on with i += size.
BatchItemSettles(k, o, thrower) ==
    /\ bProcs[k] = Pending
    /\ bOrder' = Append(bOrder, k)
    /\ LET procs == [bProcs EXCEPT ![k] = o]
           log == Append(bEvents, BEv("settle", k, bIndex))
           all == IF bpc = "awaitAll" THEN PromiseAll(procs, Slice(bIndex), k)
                                      ELSE "pending"
           res == results \o GroupResults(procs, bOrder', Slice(bIndex))
       IN  CASE all = "pending" ->
                  /\ thrower = 0
                  /\ bProcs' = procs
                  /\ bEvents' = log
                  /\ UNCHANGED <<bIndex, results, bpc, bResult>>
             [] all = "rejected" ->
                  /\ thrower = 0
                  /\ bProcs' = procs
                  /\ bEvents' = Append(log, BEv("throw", k, bIndex))
                  /\ bpc' = "done"
                  /\ bResult' = Settle(bResult, o)
                  /\ UNCHANGED <<bIndex, results>>
             [] all = "fulfilled" ->
                  IF ShouldWait(bIndex)
                  THEN /\ thrower = 0
                       /\ bProcs' = procs
                       /\ bEvents' = Append(log, WaitEv(bIndex))
                       /\ bpc' = "wait"
                       /\ results' = res
                       /\ UNCHANGED <<bIndex, bResult>>
                  ELSE LoopGroup(bIndex + size, res, procs, log, thrower)
    /\ UNCHANGED <<bOptions, items>>
    /\ UNCHANGED <<rvars, tvars, cvars, lvars>>

\* line 282 resumes: the setTimeout of delay ms fires, then i += size and the
\* next loop iteration
BatchWaitElapsed(thrower) ==
    /\ bpc = "wait"
    /\ LoopGroup(bIndex + size, results, bProcs,
                 Append(bEvents, BEv("elapsed", 0, bIndex)), thrower)
    /\ UNCHANGED <<bOptions, items, bOrder>>
    /\ UNCHANGED <<rvars, tvars, cvars, lvars>>

-----------------------------------------------------------------------------
(* Specifications: one combinator runs, the others have not been called *)

RetryIdle ==
    /\ options = [attempts |-> {}, delay |-> {}, backoff |-> {}, onRetry |-> {}]
    /\ attempt = 0
    /\ lastError = Undefined
    /\ rpc = "idle"
    /\ waitTime = 0
    /\ inFlight = 0
    /\ events = <<>>
    /\ result = Pending

TimeoutIdle ==
    /\ tPromise = Pending
    /\ tMs = 0
    /\ tMessage = {}
    /\ tpc = "idle"
    /\ timeoutId = "none"
    /\ deadline = 0
    /\ now = 0
    /\ tWrapped = Pending
    /\ tJobs = <<>>
    /\ tChain = <<>>
    /\ tFirst = "none"

CancelIdle ==
    /\ cPromise = Pending
    /\ cpc = "idle"
    /\ isCancelled = FALSE
    /\ wrappedPromise = Pending
    /\ cJobs = <<>>
    /\ cHistory = <<>>

RateIdle ==
    /\ maxCalls = 0
    /\ queue = <<>>
    /\ callsMade = 0
    /\ interval = "idle"
    /\ lCallers = <<>>
    /\ lArgs = <<>>
    /\ lResults = <<>>
    /\ lInvoked = <<>>
    /\ lJobs = <<>>
    /\ ticks = 0

BatchIdle ==
    /\ bOptions = [size |-> {}, delay |-> {}, concurrency |-> {}]
    /\ items = <<>>
    /\ bIndex = 0
    /\ results = <<>>
    /\ bpc = "idle"
    /\ bProcs = <<>>
    /\ bOrder = <<>>
    /\ bEvents = <<>>
    /\ bResult = Pending

RetryInit == RetryBegin /\ TimeoutIdle /\ CancelIdle /\ RateIdle /\ BatchIdle

SpecRetry == RetryInit /\ [][RetryNext]_vars

TimeoutInit == RetryIdle /\ TimeoutBegin /\ CancelIdle /\ RateIdle /\ BatchIdle

TimeoutNext ==
    \/ TimeoutStart
    \/ \E o \in Outcomes : TimeoutTaskSettles(o)
    \/ TimeoutTick
    \/ TimeoutFires
    \/ TimeoutReaction

SpecTimeout == TimeoutInit /\ [][TimeoutNext]_vars

CancelInit == RetryIdle /\ TimeoutIdle /\ CancelBegin /\ RateIdle /\ BatchIdle

CancelNext ==
    \/ CancelStart
    \/ \E o \in Outcomes : CancelTaskSettles(o)
    \/ Cancel
    \/ CancelReaction

SpecCancel == CancelInit /\ [][CancelNext]_vars

RateInit == RetryIdle /\ TimeoutIdle /\ CancelIdle /\ RateBegin /\ BatchIdle

RateNext ==
    \/ RateCall
    \/ RateTick
    \/ \E id \in 1..Len(lCallers) :
          \E o \in FnOutcomes(lArgs[id]) : RateFnSettles(id, o)
    \/ RateContinuation

SpecRate == RateInit /\ [][RateNext]_vars

\* rateLimit with a limit of at least one call, under a timer that keeps
\* ticking (setInterval is never cleared), a producer whose promises all
\* settle, and an event loop that runs every queued continuation
RateLiveInit == RateInit /\ maxCalls >= 1

RateLiveNext == RateNext \/ RateLateTick

FnSettles(id) ==
    /\ id <= Len(lArgs)
    /\ \E o \in FnOutcomes(lArgs[id]) : RateFnSettles(id, o)

RateFairness ==
    /\ WF_vars(RateTick \/ RateLateTick)
    /\ WF_vars(RateContinuation)
    /\ \A id \in 1..MaxRequests : WF_vars(FnSettles(id))

SpecRateLive == RateLiveInit /\ [][RateLiveNext]_vars /\ RateFairness

BatchInit == RetryIdle /\ TimeoutIdle /\ CancelIdle /\ RateIdle /\ BatchBegin

BatchNext ==
    \/ \E thrower \in 0..Len(items) : BatchStart(thrower)
    \/ \E k \in 1..Len(items), thrower \in 0..Len(items) :
          \E o \in ProcessorOutcomes(k) : BatchItemSettles(k, o, thrower)
    \/ \E thrower \in 0..Len(items) : BatchWaitElapsed(thrower)

SpecBatch == BatchInit /\ [][BatchNext]_vars

-----------------------------------------------------------------------------
(* Properties of retry *)

\* the positions of the events of one type, and their attempt indices in order
EventsOf(type) == SelectSeq(events, LAMBDA ev : ev.type = type)
IndicesOf(type) == [i \in 1..Len(EventsOf(type)) |-> EventsOf(type)[i].attempt]
UpTo(n) == [i \in 1..n |-> i]

\* C1: when an attempt k succeeds, it is the last thing retry does: retry is
\* done and resolved with that attempt's value, fn has been invoked exactly k
\* times (k <= attempts), onRetry (when supplied) has been called exactly for
\* the attempts 1..k-1 in that order, and no fn() promise is left in flight.
C1_SuccessEndsRetry ==
    \A i \in 1..Len(events) :
        events[i].type = "resolve" =>
            LET k == events[i].attempt
            IN  /\ i = Len(events)
                /\ rpc = "done"
                /\ result = Fulfilled(events[i].payload.message)
                /\ k \in 1..attempts
                /\ IndicesOf("call") = UpTo(k)
                /\ IndicesOf("onRetry") = IF onRetry THEN UpTo(k - 1) ELSE <<>>
                /\ inFlight = 0

C1_Witness ==
    /\ onRetry
    /\ attempts = MaxAttempts
    /\ Len(events) > 0
    /\ events[Len(events)].type = "resolve"
    /\ events[Len(events)].attempt = MaxAttempts
    /\ result = Fulfilled("V2")

\* C2 (as claimed): when retry has ended and no attempt succeeded, fn has
\* been invoked exactly `attempts` times, onRetry (when supplied) exactly
\* attempts-1 times, for the attempts 1..attempts-1, and as many waits were
\* made, none after the last attempt.
C2_ExhaustionCounts ==
    (rpc = "done" /\ EventsOf("resolve") = <<>>) =>
        /\ IndicesOf("call") = UpTo(attempts)
        /\ IndicesOf("onRetry") = IF onRetry THEN UpTo(attempts - 1) ELSE <<>>
        /\ IndicesOf("wait") = UpTo(attempts - 1)

\* C3 (as claimed): when retry has ended in failure, the error it surfaces is
\* the error of the last call of fn that was attempted.
C3_LastErrorSurfaces ==
    (rpc = "done" /\ IsRejected(result)) =>
        /\ EventsOf("reject") # <<>>
        /\ result = Rejected(EventsOf("reject")[Len(EventsOf("reject"))].payload)

\* the delay the caller asked for: the option when given, 1000 otherwise
RequestedDelay ==
    IF options.delay = {} THEN DefaultDelay ELSE CHOOSE d \in options.delay : TRUE

\* C4 (as claimed): the wait after the failed attempt k is
\* baseDelayMs * 2^(k-1) with backoff and baseDelayMs without, for every
\* baseDelayMs >= 0 that was given, 0 included.
C4_WaitTime ==
    \A i \in 1..Len(events) :
        events[i].type = "wait" =>
            events[i].ms = IF options.backoff = {FALSE}
                           THEN RequestedDelay
                           ELSE RequestedDelay * 2 ^ (events[i].attempt - 1)

\* C5: attempts are made one at a time in the order 1, 2, ...; a call of fn
\* for attempt k+1 directly follows the end of the wait of attempt k, which
\* directly follows the start of that wait, which directly follows
\* onRetry(k, error_k) when a callback is supplied, which directly follows
\* the failure of attempt k with error_k; and every wait that has ended is
\* followed by the next call.
C5_AttemptOrder ==
    /\ inFlight \in {0, 1}
    /\ inFlight = 1 <=> rpc = "awaitFn"
    /\ IndicesOf("call") = UpTo(Len(EventsOf("call")))
    /\ Len(EventsOf("call")) <= attempts
    /\ \A i \in 1..Len(events) :
        (events[i].type = "call" /\ events[i].attempt > 1) =>
            LET k == events[i].attempt - 1
                w == IF onRetry THEN 4 ELSE 3
            IN  /\ i > w
                /\ events[i - 1].type = "elapsed" /\ events[i - 1].attempt = k
                /\ events[i - 2].type = "wait" /\ events[i - 2].attempt = k
                /\ events[i - 1].ms = events[i - 2].ms
                /\ onRetry => /\ events[i - 3].type = "onRetry"
                              /\ events[i - 3].attempt = k
                              /\ events[i - 3].payload = events[i - 4].payload
                /\ events[i - w].type = "reject" /\ events[i - w].attempt = k
                /\ events[i - w - 1].type = "call" /\ events[i - w - 1].attempt = k
    /\ \A i \in 1..Len(events) :
        events[i].type = "wait" =>
            /\ i > 1
            /\ events[i - 1].type = IF onRetry THEN "onRetry" ELSE "reject"
            /\ events[i - 1].attempt = events[i].attempt

C5_Witness ==
    /\ onRetry
    /\ Len(EventsOf("call")) = MaxAttempts
    /\ Len(EventsOf("elapsed")) = MaxAttempts - 1
    /\ inFlight = 1

-----------------------------------------------------------------------------
(* Properties of withTimeout *)

\* the failure a caller of withTimeout expects at the deadline
ExpectedTimeout ==
    Rejected([message |-> IF tMessage = {} THEN "Operation timed out"
                          ELSE CHOOSE m \in tMessage : TRUE,
              code |-> "TIMEOUT",
              statusCode |-> 408])

\* C6: the returned promise settles once and the first event decides how:
\* before any event it is pending; when the task settled before the deadline
\* fired it is pending or has the task's own outcome, and has it once the
\* reactions have run; when the deadline fired first it is rejected with the
\* TIMEOUT failure carrying the given (or the default) message.
C6_FirstEventWins ==
    /\ [](/\ tFirst = "none" => tWrapped = Pending
          /\ tFirst = "task" =>
                /\ tWrapped \in {Pending, tPromise}
                /\ (tpc = "called" /\ tJobs = <<>>) => tWrapped = tPromise
          /\ tFirst = "deadline" => tWrapped = ExpectedTimeout)
    /\ [][tWrapped # Pending => tWrapped' = tWrapped]_vars

C6_Witness ==
    /\ tFirst = "task"
    /\ IsRejected(tPromise)
    /\ tWrapped = tPromise
    /\ tMs < MaxTime
    /\ now = MaxTime

\* C7 (as claimed): when the task settled before the deadline, no deadline
\* timer is pending once the returned promise has settled.
C7_NoTimerOnceSettled ==
    (tFirst = "task" /\ IsSettled(tWrapped)) => timeoutId # "armed"

\* C7 (amended): when the task settled before the deadline, the deadline
\* callback never runs, and the timer is cleared by the time the reaction
\* jobs of the chain have run (it is still armed only while such a job is
\* waiting, and no timer callback runs then).
C7_TimerClearedInSameDrain ==
    /\ tFirst = "task" =>
          /\ timeoutId # "fired"
          /\ (tpc = "called" /\ tJobs = <<>>) => timeoutId = "cleared"
    /\ (IsSettled(tWrapped) /\ tJobs = <<>>) => timeoutId # "armed"

C7_Witness ==
    /\ tFirst = "task"
    /\ tWrapped = tPromise
    /\ timeoutId = "cleared"
    /\ now > deadline

\* C8: when the deadline fired first, the TIMEOUT outcome stays whatever the
\* task does later; a late rejection of the task is consumed by the .catch
\* handler, and no promise of the chain is ever left rejected without one.
C8_LateSettlementIgnored ==
    /\ tFirst = "deadline" => tWrapped = ExpectedTimeout
    /\ Len(tChain) = 3 => ~IsRejected(tChain[3])
    /\ (tpc = "called" /\ IsRejected(tPromise) /\ tJobs = <<>>) =>
          /\ Len(tChain) = 3
          /\ tChain[1] = tPromise
          /\ tChain[2] = Fulfilled("undefined")

C8_Witness ==
    /\ tFirst = "deadline"
    /\ timeoutId = "fired"
    /\ IsRejected(tPromise)
    /\ Len(tChain) = 3
    /\ tWrapped = ExpectedTimeout

-----------------------------------------------------------------------------
(* Properties of withCancel *)

Happened(what) == \E i \in 1..Len(cHistory) : cHistory[i] = what

\* cancel() was called before the reaction to the task's settlement ran
CancelledBeforeDelivery ==
    \E i, j \in 1..Len(cHistory) :
        i < j /\ cHistory[i] = "cancel" /\ cHistory[j] = "deliver"

\* C9 (as claimed): when cancel() was called before the underlying
\* settlement was observed, the returned promise fails with the CANCELLED
\* failure, whether the underlying task succeeded or failed.
C9_CancelMasksOutcome ==
    CancelledBeforeDelivery =>
        wrappedPromise = Rejected([message |-> "Operation cancelled",
                                   code |-> "CANCELLED",
                                   statusCode |-> 500])

\* C10: as long as cancel() has not been called, the returned promise is
\* pending or has exactly the outcome of the underlying task, and has it once
\* the reaction has run; a CANCELLED failure needs a cancel() call.
C10_PassThroughWithoutCancel ==
    /\ ~Happened("cancel") =>
          /\ wrappedPromise \in {Pending, cPromise}
          /\ Happened("deliver") => wrappedPromise = cPromise
    /\ (IsRejected(wrappedPromise) /\ wrappedPromise[2].code = "CANCELLED") =>
          Happened("cancel")

C10_Witness ==
    /\ ~Happened("cancel")
    /\ Happened("deliver")
    /\ wrappedPromise = Fulfilled("V1")

\* C11: cancel() is idempotent and late-safe: after one or more calls the
\* flag is set, a call changes nothing but the flag (so a call that finds the
\* flag set changes nothing at all), and a returned promise that has settled
\* keeps its outcome whatever is called afterwards.
C11_CancelIdempotentLateSafe ==
    /\ [](Happened("cancel") => isCancelled)
    /\ [][cHistory' = Append(cHistory, "cancel") =>
             /\ isCancelled'
             /\ <<cPromise, cpc, wrappedPromise, cJobs>>' =
                    <<cPromise, cpc, wrappedPromise, cJobs>>]_vars
    /\ [][wrappedPromise # Pending => wrappedPromise' = wrappedPromise]_vars

C11_Witness ==
    /\ Len(cHistory) >= 4
    /\ \E d \in 3..(Len(cHistory) - 1) :
          /\ cHistory[d] = "deliver"
          /\ cHistory[d + 1] = "cancel"
          /\ \E i, j \in 1..(d - 1) :
                i < j /\ cHistory[i] = "cancel" /\ cHistory[j] = "cancel"
    /\ IsSettled(wrappedPromise)

\* C22: the returned promise settles only through the reaction to the
\* settlement of the underlying task: while the task is pending the returned
\* promise is pending, however often cancel() was called, and a settled
\* returned promise has a settlement of the task and a later run of the
\* reaction behind it.
C22_SettlesOnlyWithTask ==
    /\ cPromise = Pending => wrappedPromise = Pending
    /\ wrappedPromise # Pending =>
          \E i, j \in 1..Len(cHistory) :
              i < j /\ cHistory[i] = "settle" /\ cHistory[j] = "deliver"
    /\ (wrappedPromise = Pending /\ cJobs = <<>> /\ cpc = "called") =>
          cPromise = Pending

C22_Witness ==
    /\ cPromise = Pending
    /\ isCancelled
    /\ Len(SelectSeq(cHistory, LAMBDA h : h = "cancel")) = MaxCancelCalls
    /\ wrappedPromise = Pending

-----------------------------------------------------------------------------
(* Properties of rateLimit *)

\* the invocations of fn made in window w (window 0 is before the first tick)
InvokedIn(w) == {i \in 1..Len(lInvoked) : lInvoked[i].window = w}

\* C12: the counter stays within 0..maxCalls and equals the number of
\* invocations of fn made since the last window tick (so it restarts from 0
\* at every tick and nowhere else); no window, the one before the first tick
\* included, sees more than maxCalls invocations; every call that was not
\* invoked is still in the queue.
C12_AdmissionBound ==
    /\ callsMade \in 0..maxCalls
    /\ callsMade = Cardinality(InvokedIn(ticks))
    /\ \A w \in 0..ticks : Cardinality(InvokedIn(w)) <= maxCalls
    /\ Len(lInvoked) + Len(queue) = Len(lCallers)

C12_Witness ==
    /\ maxCalls = MaxLimit
    /\ ticks >= 1
    /\ Cardinality(InvokedIn(0)) = maxCalls
    /\ callsMade = maxCalls
    /\ Len(lInvoked) = MaxRequests

\* C13: fn is invoked for the calls in their order of arrival: the k-th
\* invocation is for the k-th call, and the queue holds the later calls in
\* their order of arrival.
C13_Fifo ==
    /\ \A k \in 1..Len(lInvoked) : lInvoked[k].id = k
    /\ \A k \in 1..Len(queue) : queue[k].id = Len(lInvoked) + k

C13_Witness ==
    /\ ticks >= 1
    /\ Len(lInvoked) = MaxRequests
    /\ \E k \in 1..Len(lInvoked) :
          lInvoked[k].waiting >= 1 /\ lInvoked[k].window >= 1

\* C14 (as claimed): a drain attempt goes on until the queue is empty or the
\* window is full; every call, tick and continuation ends with a drain
\* attempt, so in every state the queue is empty or callsMade = maxCalls.
C14_DrainFillsWindow ==
    queue = <<>> \/ callsMade = maxCalls

\* C15: fn is invoked at most once per call and with that call's arguments;
\* the promise of a call is pending or has exactly the outcome of its own
\* invocation, and has it once the continuation has run; so no outcome comes
\* from the limiter or from another call, and no call is lost.
C15_PerCallDelivery ==
    /\ \A i, j \in 1..Len(lInvoked) : lInvoked[i].id = lInvoked[j].id => i = j
    /\ \A i \in 1..Len(lInvoked) : lInvoked[i].args = lInvoked[i].id
    /\ \A id \in 1..Len(lCallers) :
          /\ lCallers[id] \in {Pending, lResults[id]}
          /\ (IsSettled(lResults[id]) /\ \A k \in 1..Len(lJobs) : lJobs[k] # id)
                => lCallers[id] = lResults[id]
          /\ IsSettled(lResults[id]) =>
                /\ \E i \in 1..Len(lInvoked) : lInvoked[i].id = id
                /\ lResults[id] \in {Fulfilled(<<"result", id>>),
                                     Rejected(Err("E1", ""))}
    /\ Len(lInvoked) + Len(queue) = Len(lCallers)

C15_Witness ==
    /\ Len(lCallers) = MaxRequests
    /\ lJobs = <<>>
    /\ IsRejected(lCallers[1])
    /\ lCallers[2] = Fulfilled(<<"result", 2>>)
    /\ lCallers[3] = Fulfilled(<<"result", 3>>)
    /\ IsRejected(lCallers[MaxRequests])

-----------------------------------------------------------------------------
(* Properties of batch *)

BEventsOf(type) == SelectSeq(bEvents, LAMBDA ev : ev.type = type)

\* the number of groups of an input of n items
Groups(n) == (n + size - 1) \div size

\* C16: when every processor invocation has fulfilled, batch is done and
\* fulfilled with one result per item, the k-th being the result the
\* processor gave for the k-th item, whatever the order of completion.
C16_ResultOrder ==
    /\ (bpc \notin {"idle", "start"}
          /\ \A k \in 1..Len(items) : IsFulfilled(bProcs[k])) =>
          /\ bpc = "done"
          /\ bResult = Fulfilled([k \in 1..Len(items) |-> <<"r", items[k]>>])
    /\ IsFulfilled(bResult) =>
          /\ Len(bResult[2]) = Len(items)
          /\ \A k \in 1..Len(items) : bProcs[k] = Fulfilled(bResult[2][k])

C16_Witness ==
    /\ Len(items) = MaxItems
    /\ size \in 2..(MaxItems - 1)
    /\ IsFulfilled(bResult)
    /\ bOrder[1] = 2
    /\ bOrder[MaxItems] < MaxItems

\* C17: the processor is invoked for the items in their order, each at most
\* once (exactly once when batch succeeds), item k in the group that starts
\* at offset ((k-1) div size) * size; an item of a later group is invoked only
\* after the promises of all items of the group before it have settled, and
\* the promises in flight belong to one group.
C17_GroupSequencing ==
    /\ \A p \in 1..Len(BEventsOf("invoke")) : BEventsOf("invoke")[p].item = p
    /\ \A p \in 1..Len(bEvents) :
          bEvents[p].type = "invoke" =>
              /\ bEvents[p].offset = ((bEvents[p].item - 1) \div size) * size
              /\ \A j \in 1..bEvents[p].offset :
                    j > bEvents[p].offset - size =>
                        \E q \in 1..(p - 1) :
                            bEvents[q].type = "settle" /\ bEvents[q].item = j
    /\ \A j, k \in 1..Len(items) :
          (bProcs[j] = Pending /\ bProcs[k] = Pending) =>
              (j - 1) \div size = (k - 1) \div size
    /\ IsFulfilled(bResult) => Len(BEventsOf("invoke")) = Len(items)

C17_Witness ==
    /\ Len(items) = MaxItems
    /\ size = MaxSize
    /\ size < MaxItems
    /\ bProcs[MaxItems] = Pending

\* the items whose processor invocation failed
Failed == {k \in 1..Len(items) : bProcs[k][1] \in {"rejected", "threw"}}

\* the first failure: the item whose processor threw, or else the first item
\* whose promise rejected
FirstFailed ==
    IF \E k \in Failed : bProcs[k][1] = "threw"
    THEN CHOOSE k \in Failed : bProcs[k][1] = "threw"
    ELSE SelectSeq(bOrder, LAMBDA k : k \in Failed)[1]

\* C18: once the processor has failed for an item, batch is done and rejected
\* with the error of the first failure, unchanged; nothing is returned; the
\* failures all lie in the group that was running, and no item of a later
\* group is ever invoked.
C18_FailFast ==
    Failed # {} =>
        /\ bpc = "done"
        /\ bResult = Rejected(Err("E" \o ToString(FirstFailed), ""))
        /\ \A k \in Failed : bIndex < k /\ k <= bIndex + size
        /\ \A k \in 1..Len(items) : k > bIndex + size => bProcs[k] = NotInvoked

C18_Witness ==
    /\ Len(items) = MaxItems
    /\ size = 2
    /\ bOrder = <<2, 1>>
    /\ Failed = {1, 2}
    /\ bResult = Rejected(ProcessorError(2))

\* C19: waits are made only with delay > 0 and last delay ms, one after each
\* group that is not the last: a wait directly follows the settlement that completed the group
\* at its offset, the offsets of the waits are 0, size, 2*size, ..., the first
\* item of a later group is invoked directly after the end of the wait of the
\* group before it, and a batch that succeeded has made one wait less than it
\* has groups (none for an empty input).
C19_InterGroupDelay ==
    /\ batchDelay = 0 => BEventsOf("wait") = <<>>
    /\ \A p \in 1..Len(BEventsOf("wait")) :
          /\ BEventsOf("wait")[p].offset = (p - 1) * size
          /\ {BEventsOf("wait")[p].ms} = bOptions.delay
          /\ BEventsOf("wait")[p].offset + size < Len(items)
    /\ \A p \in 1..Len(bEvents) :
          /\ bEvents[p].type = "wait" => (p > 1 /\ bEvents[p - 1].type = "settle")
          /\ (batchDelay > 0 /\ bEvents[p].type = "invoke"
                /\ bEvents[p].offset > 0
                /\ bEvents[p].item = bEvents[p].offset + 1) =>
                /\ p > 2
                /\ bEvents[p - 1] = BEv("elapsed", 0, bEvents[p].offset - size)
                /\ bEvents[p - 2] = WaitEv(bEvents[p].offset - size)
    /\ (batchDelay > 0 /\ IsFulfilled(bResult)) =>
          Len(BEventsOf("wait")) = IF Len(items) = 0 THEN 0
                                   ELSE Groups(Len(items)) - 1

C19_Witness ==
    /\ batchDelay > 0
    /\ IsFulfilled(bResult)
    /\ Len(items) = MaxItems
    /\ Len(BEventsOf("wait")) >= 2
    /\ bEvents[Len(bEvents)].type = "settle"

\* C20 (as claimed): with a concurrency option c, at most c promises of the
\* processor are in flight at any time.
C20_ConcurrencyBound ==
    bOptions.concurrency # {} =>
        Cardinality({k \in 1..Len(items) : bProcs[k] = Pending}) <= concurrency

-----------------------------------------------------------------------------
(* Liveness of rateLimit *)

Admitted(id) == \E i \in 1..Len(lInvoked) : lInvoked[i].id = id

\* C21: with maxCalls >= 1, a timer that keeps ticking and a producer whose
\* promises all settle, every call made through the dispatcher is eventually
\* admitted, and its caller's promise is eventually settled.
C21_EveryCallServed ==
    \A id \in 1..MaxRequests :
        (Len(lCallers) >= id) ~> (Admitted(id) /\ lCallers[id] # Pending)

\* the first invocation outlasts two windows and more while every later call
\* is admitted, one per window, and settled
C21_Witness ==
    /\ maxCalls = 1
    /\ Len(lCallers) = MaxRequests
    /\ ticks > MaxTicks
    /\ lResults[1] = Pending
    /\ \A id \in 2..MaxRequests : lCallers[id] # Pending

====
